---------------------------- MODULE Spec2Model ----------------------------
(***************************************************************************)
(* A model of the HTTP-over-tunnel proxy of rttys (src/http.go):           *)
(*   - doHttpProxy       one goroutine per accepted browser connection,    *)
(*                       plus the watcher goroutine it starts;             *)
(*   - httpProxyRedirect the session bootstrap handler;                    *)
(*   - handleHttpProxyResp the dispatch of a device's reply frame;         *)
(*   - the two sync.Map registries httpProxyCons and httpProxySessions.    *)
(* Every access to a sync.Map, a channel or the connection is one step, so *)
(* goroutines interleave exactly where the Go scheduler lets them.         *)
(***************************************************************************)
EXTENDS Integers, Sequences, FiniteSets, TLC

(***************************************************************************)
(* Bounds of the model.                                                    *)
(***************************************************************************)
MaxConns == 2
MaxRedirects == 2
MaxSessions == 3
MaxSink == 2
MaxReads == 1
MaxPipelined == 1
MaxResp == 1

Conns == 1..MaxConns
Redirs == 1..MaxRedirects

(***************************************************************************)
(* Strings.  An address string "host[:port]" is kept as what its text      *)
(* holds: the kind of host text, its dotted components, and the port text  *)
(* (absent, a decimal number, or something that is no number).  enc is     *)
(* "raw" for plain text, "esc" for a percent-encoded value and "bad" for a *)
(* value whose percent-escapes are malformed.                              *)
(***************************************************************************)
NoPort == [present |-> FALSE, numeric |-> FALSE, val |-> 0]
NumPort(n) == [present |-> TRUE, numeric |-> TRUE, val |-> n]

Str(kind, host, port) == [kind |-> kind, host |-> host, port |-> port, enc |-> "raw"]

\* "192.168.1.1:8080", "10.0.0.2", "localhost", "" and the cookie value "%zz"
Addr1 == Str("dotted", <<192, 168, 1, 1>>, NumPort(8080))
Addr2 == Str("dotted", <<10, 0, 0, 2>>, NoPort)
Localhost == Str("name", <<>>, NoPort)
EmptyStr == Str("empty", <<>>, NoPort)
BadEscape == [Str("name", <<>>, NoPort) EXCEPT !.enc = "bad"]

\* a port that is text and no number, as in "10.0.0.2:http", and the
\* addresses "10.0.0.2:65616" and "10.0.0.2:http"
TextPort == [present |-> TRUE, numeric |-> FALSE, val |-> 0]
AddrBigPort == Str("dotted", <<10, 0, 0, 2>>, NumPort(65616))
AddrTextPort == Str("dotted", <<10, 0, 0, 2>>, TextPort)

\* url.QueryEscape, as gin's SetCookie applies it: ':' becomes %3A
QueryEscape(s) ==
    IF s.port.present THEN [s EXCEPT !.enc = "esc"] ELSE s

\* url.QueryUnescape; on a malformed escape it returns "" and an error,
\* which line 150 drops
QueryUnescape(s) ==
    IF s.enc = "bad" THEN EmptyStr ELSE [s EXCEPT !.enc = "raw"]

(***************************************************************************)
(* A cookie that is absent is <<>>, one that is present is <<value>>.      *)
(***************************************************************************)
NoCookie == <<>>
Cookie(val) == <<val>>

(***************************************************************************)
(* The device, scheme and destination cookies a browser may hold: what the *)
(* redirect for d1, https and 192.168.1.1:8080 set, the same with another  *)
(* device, with another scheme and destination (10.0.0.2), without scheme  *)
(* and destination, with a destination whose escapes are malformed, and   *)
(* with a destination whose port is 65616 or is no number.                 *)
(***************************************************************************)
Jar(devid, proto, destaddr) ==
    [devid |-> devid, proto |-> proto, destaddr |-> destaddr]
JarHonest == Jar(Cookie("d1"), Cookie("https"), Cookie(QueryEscape(Addr1)))
JarOtherDevice == Jar(Cookie("d2"), Cookie("https"), Cookie(QueryEscape(Addr1)))
JarOtherDest == Jar(Cookie("d1"), Cookie("http"), Cookie(Addr2))
JarNoDest == Jar(Cookie("d1"), NoCookie, NoCookie)
JarBadEscape == Jar(Cookie("d1"), Cookie("https"), Cookie(BadEscape))
JarBigPort == Jar(Cookie("d1"), Cookie("http"), Cookie(QueryEscape(AddrBigPort)))
JarTextPort == Jar(Cookie("d1"), Cookie("http"), Cookie(QueryEscape(AddrTextPort)))
Jars == {JarHonest, JarOtherDevice, JarOtherDest, JarNoDest, JarBadEscape,
         JarBigPort, JarTextPort}

(***************************************************************************)
(* brk.devices: the devices the broker knows, with the protocol version    *)
(* each negotiated.  "dx" is a device id the broker does not know.         *)
(***************************************************************************)
SchemeProto == 3
devices == [d \in {"d1", "d2"} |->
              [id |-> d, proto |-> IF d = "d1" THEN SchemeProto + 1 ELSE SchemeProto]]

\* The session id no redirect ever minted
BogusSid == 0

(***************************************************************************)
(* The remote endpoints of accepted connections (net.TCPAddr).  An IPv4    *)
(* peer has a 4-byte IP on an IPv4 listener and the 16-byte v4-mapped form *)
(* on a dual-stack one.                                                    *)
(***************************************************************************)
RemoteAddrs ==
    << [IP |-> <<10, 0, 0, 1>>, Port |-> 40000],
       [IP |-> <<0, 0, 0, 0, 0, 0, 0, 0, 0, 0, 255, 255, 10, 0, 0, 9>>, Port |-> 513],
       [IP |-> <<10, 0, 0, 3>>, Port |-> 65535] >>
NoAddr == [IP |-> <<>>, Port |-> 0]

(***************************************************************************)
(* Pure helpers.                                                           *)
(***************************************************************************)
\* binary.BigEndian.PutUint16
PutUint16(n) == << (n \div 256) % 256, n % 256 >>

\* the conversion uint16(x)
Uint16(x) == x % 65536

\* tcpAddr2Bytes: 2-byte port, then copy() of the IP into the 16 bytes left
tcpAddr2Bytes(addr) ==
    PutUint16(Uint16(addr.Port)) \o
    [i \in 1..16 |-> IF i <= Len(addr.IP) THEN addr.IP[i] ELSE 0]

\* net.SplitHostPort: fails without a port ("missing port in address") and
\* on an unbracketed IPv6 literal ("too many colons")
SplitHostPortErr(addr) == addr.kind = "v6" \/ ~addr.port.present

\* strconv.Atoi with its error dropped: 0 for text that is no number
Atoi(port) == IF port.numeric THEN port.val ELSE 0

\* net.ParseIP followed by To4: the 4 bytes, or <<>> for nil
ParseIPTo4(addr) ==
    IF /\ addr.kind = "dotted"
       /\ Len(addr.host) = 4
       /\ \A i \in 1..4 : addr.host[i] \in 0..255
    THEN addr.host
    ELSE <<>>

httpProxyVaildAddr(addr) ==
    LET ports == IF SplitHostPortErr(addr) THEN NumPort(80) ELSE addr.port
        ip == ParseIPTo4(addr)
    IN  IF ip = <<>>
        THEN [err |-> TRUE, ip |-> <<>>, port |-> 0]
        ELSE [err |-> FALSE, ip |-> ip, port |-> Uint16(Atoi(ports))]

\* genDestAddr: the 6 bytes, or <<>> for the nil slice
genDestAddr(addr) ==
    LET r == httpProxyVaildAddr(addr)
    IN  IF r.err THEN <<>> ELSE r.ip \o PutUint16(r.port)

\* The message HttpProxyWriter.Write builds from p
WriterMsg(dev, https, srcAddr, destAddr, p) ==
    (IF dev.proto > SchemeProto
     THEN (IF https THEN <<1>> ELSE <<0>>)
     ELSE <<>>) \o srcAddr \o destAddr \o p

\* The message the upgrade loop builds from the bytes of one read
RawMsg(srcAddr, destAddr, p) == srcAddr \o destAddr \o p

\* req.Write(rw): the serialized request n of a connection.  A request is
\* taken to fit the 4096-byte buffer req.Write puts before rw, so that it
\* reaches rw.Write in one call.
ReqByte == 71
SerializeRequest(n) == <<ReqByte, n>>

\* The bytes of the n-th raw read of an upgraded connection
RawBytes(n) == <<n>>

(***************************************************************************)
(* sync.Map as a function with a finite domain.                            *)
(***************************************************************************)
EmptyMap == [k \in {} |-> 0]
MapHas(m, k) == k \in DOMAIN m
MapStore(m, k, val) == [x \in DOMAIN m \cup {k} |-> IF x = k THEN val ELSE m[x]]
MapDelete(m, k) == [x \in DOMAIN m \ {k} |-> m[x]]

(***************************************************************************)
(* State.                                                                  *)
(***************************************************************************)
VARIABLES
    run,                \* the bounds of this run and its browsers' cookies
    httpProxyCons,      \* devid -> (string(srcAddr) -> connection)
    httpProxySessions,  \* sid -> the session's channel (named by its sid)
    chanClosed,         \* the session channels that were closed
    nextSid,            \* utils.GenUniqueID: the next fresh id
    setCookies,         \* sid -> the cookies the redirect that minted it set
    sink,               \* brk.httpReq: the httpReq values in the channel
    pushedBy,           \* for each element of sink, who pushed it, from what
    sent,               \* per connection, the payloads it pushed so far
    pc,                 \* doHttpProxy's position, per connection
    remote,             \* c.RemoteAddr()
    req,                \* the cookies of the first request, as far as read
    loc,                \* doHttpProxy's locals
    buffered,           \* complete requests waiting in the bufio.Reader
    nread,              \* requests or raw chunks read after the first request
    exitClosed,         \* the connections whose exit channel was closed
    wpc,                \* the watcher goroutine's position
    closeCalls,         \* calls of c.Close(), by caller
    written,            \* payloads c.Write() delivered to the browser
    rpc,                \* httpProxyRedirect's position, per request
    rreq,               \* the redirect request's parameters and cookie
    rloc,               \* httpProxyRedirect's locals
    status              \* the status of the response the goroutine is about to send

vars == << run, httpProxyCons, httpProxySessions, chanClosed, nextSid, setCookies,
           sink, pushedBy, sent, pc, remote, req, loc, buffered, nread, exitClosed,
           wpc, closeCalls, written, rpc, rreq, rloc, status >>

regVars == << run, httpProxyCons >>
sessVars == << httpProxySessions, chanClosed, nextSid, setCookies >>
sinkVars == << sink, pushedBy, sent >>
connVars == << closeCalls, written >>
redirVars == << rpc, rreq, rloc, status >>

(***************************************************************************)
(* listenHttpProxy.  cfg says which of SslCert, SslKey and SslCacert are   *)
(* set (not ""); env says what the calls that reach outside the process    *)
(* return: whether net.Listen binds, whether tls.LoadX509KeyPair loads the *)
(* pair and whether ioutil.ReadFile reads the CA bundle.  The outcome is   *)
(* the listener the accept loop runs on, or the end of the process         *)
(* (log.Fatal at lines 231 and 267).                                       *)
(***************************************************************************)
NoClientCert == "NoClientCert"
RequireAndVerifyClientCert == "RequireAndVerifyClientCert"

Cfgs == [SslCert : BOOLEAN, SslKey : BOOLEAN, SslCacert : BOOLEAN]
Envs == [listen : BOOLEAN, keyPair : BOOLEAN, caFile : BOOLEAN]

Fatal == [fatal |-> TRUE, tls |-> FALSE, ClientAuth |-> NoClientCert]
Listener(tls, auth) == [fatal |-> FALSE, tls |-> tls, ClientAuth |-> auth]

listenHttpProxy(cfg, env) ==
    IF cfg.SslCert /\ cfg.SslKey
    THEN IF ~env.keyPair
         THEN Fatal
         ELSE IF ~env.listen
         THEN Fatal
         ELSE IF ~cfg.SslCacert
         THEN Listener(TRUE, NoClientCert)
         ELSE IF ~env.caFile
         THEN Listener(TRUE, NoClientCert)
         ELSE Listener(TRUE, RequireAndVerifyClientCert)
    ELSE IF ~env.listen
         THEN Fatal
         ELSE Listener(FALSE, NoClientCert)

\* The calls listenHttpProxy makes with cfg: a call it does not make has no
\* outcome to tell apart
Consulted(cfg, env) ==
    /\ ~(cfg.SslCert /\ cfg.SslKey) => env.keyPair
    /\ ~(cfg.SslCert /\ cfg.SslKey /\ cfg.SslCacert) => env.caFile

\* The startups after which connections are accepted
Startups ==
    { s \in [cfg : Cfgs, env : Envs, ln : {Listener(t, a) :
                  t \in BOOLEAN, a \in {NoClientCert, RequireAndVerifyClientCert}}] :
        /\ Consulted(s.cfg, s.env)
        /\ s.ln = listenHttpProxy(s.cfg, s.env) }

\* no certificate, key or CA bundle configured: plain TCP
PlainTcp ==
    CHOOSE s \in Startups :
        ~s.cfg.SslCert /\ ~s.cfg.SslKey /\ ~s.cfg.SslCacert

(***************************************************************************)
(* The runs explored: how many connections are accepted, how many          *)
(* goroutines serve redirects, how many sessions are minted and how many   *)
(* reply frames reach a connection, the cookies the browsers hold and the  *)
(* startup that made the listener.                                         *)
(***************************************************************************)
RunsOf(conns, slots, sessions, resp, jars, startups) ==
    [conns : {conns}, slots : {slots}, sessions : {sessions}, resp : {resp},
     jar : jars, startup : startups]

\* two connections and a redirect that replaces their session
RunConns == RunsOf(MaxConns, MaxRedirects - 1, MaxSessions - 1, 0, {JarHonest},
                   {PlainTcp})
\* two connections of one session and the device's replies to them
RunReplies == RunsOf(MaxConns, MaxRedirects - 1, MaxSessions - 2, MaxResp,
                     {JarHonest}, {PlainTcp})
\* redirects served at the same time
RunRedirects == RunsOf(MaxConns - 1, MaxRedirects, MaxSessions, 0, {JarHonest},
                       {PlainTcp})
\* one connection with each of the cookie jars
RunJars == RunsOf(MaxConns - 1, MaxRedirects - 1, MaxSessions - 1, MaxResp, Jars,
                  {PlainTcp})
\* one connection on the listener of each startup
RunListeners == RunsOf(MaxConns - 1, MaxRedirects - 1, MaxSessions - 2, 0,
                       {JarHonest}, Startups)

Runs == RunConns \cup RunReplies \cup RunRedirects \cup RunJars \cup RunListeners

NoReq == [parsed |-> FALSE, verified |-> FALSE, devid |-> NoCookie,
          sid |-> NoCookie, proto |-> NoCookie, destaddr |-> NoCookie]
NoLoc == [devid |-> "", sid |-> BogusSid, https |-> FALSE,
          hostHeaderRewrite |-> EmptyStr, destAddr |-> <<>>, srcAddr |-> <<>>,
          v |-> BogusSid, upgrade |-> FALSE]
NoRReq == [devid |-> "", proto |-> "", addr |-> EmptyStr, pathOk |-> FALSE,
           sid |-> NoCookie]
NoRLoc == [v |-> BogusSid, sid |-> BogusSid]

Closers == {"defer", "watcher", "resp"}
Closes(c) == closeCalls[c]["defer"] + closeCalls[c]["watcher"] + closeCalls[c]["resp"]
Closed(c) == Closes(c) > 0
CloseBy(who, c) ==
    closeCalls' = [closeCalls EXCEPT ![c][who] = @ + 1]

InitRun(runs) ==
    /\ run \in runs
    /\ httpProxyCons = EmptyMap
    /\ httpProxySessions = EmptyMap
    /\ chanClosed = {}
    /\ nextSid = 1
    /\ setCookies = EmptyMap
    /\ sink = <<>>
    /\ pushedBy = <<>>
    /\ sent = [c \in Conns |-> <<>>]
    /\ pc = [c \in Conns |-> "idle"]
    /\ remote = [c \in Conns |-> NoAddr]
    /\ req = [c \in Conns |-> NoReq]
    /\ loc = [c \in Conns |-> NoLoc]
    /\ buffered = [c \in Conns |-> 0]
    /\ nread = [c \in Conns |-> 0]
    /\ exitClosed = {}
    /\ wpc = [c \in Conns |-> "none"]
    /\ closeCalls = [c \in Conns |-> [w \in Closers |-> 0]]
    /\ written = [c \in Conns |-> <<>>]
    /\ rpc = [r \in Redirs |-> "idle"]
    /\ rreq = [r \in Redirs |-> NoRReq]
    /\ rloc = [r \in Redirs |-> NoRLoc]
    /\ status = [r \in Redirs |-> 0]

Init == InitRun(Runs)

(***************************************************************************)
(* The first requests a browser may send.  In one run the browsers hold    *)
(* the same device, scheme and destination cookies, run.jar; the device    *)
(* cookie may also be missing or name a device the broker does not know,   *)
(* and the session cookie may be missing.  Without a device or a session   *)
(* cookie the cookies after it are left absent: doHttpProxy does not get   *)
(* to read them.  A browser that presents no session cookie a redirect set *)
(* presents one no redirect set.                                           *)
(***************************************************************************)
KnownSids == DOMAIN setCookies \cup {BogusSid}

(***************************************************************************)
(* The TLS handshake, which the first read of line 119 runs on a TLS       *)
(* listener.  A peer holds a client certificate the CA bundle verifies or  *)
(* holds none.  With RequireAndVerifyClientCert the handshake of a peer    *)
(* without one fails, and the read with it; otherwise no certificate is    *)
(* asked for and none is verified.                                         *)
(***************************************************************************)
PeerCerts == IF run.startup.ln.tls THEN BOOLEAN ELSE {FALSE}
Handshake(cert) ==
    run.startup.ln.ClientAuth = RequireAndVerifyClientCert => cert
Verified(cert) ==
    run.startup.ln.ClientAuth = RequireAndVerifyClientCert /\ cert

FirstRequests ==
    { r \in [parsed : {TRUE},
             verified : {Verified(k) : k \in {k \in PeerCerts : Handshake(k)}},
             devid : {NoCookie, Cookie("dx"), run.jar.devid},
             sid : {NoCookie} \cup {Cookie(s) : s \in KnownSids},
             proto : {NoCookie, run.jar.proto},
             destaddr : {NoCookie, run.jar.destaddr}] :
        /\ r.devid = NoCookie => r.sid = NoCookie
        /\ IF r.sid = NoCookie
           THEN r.proto = NoCookie /\ r.destaddr = NoCookie
           ELSE r.proto = run.jar.proto /\ r.destaddr = run.jar.destaddr }

\* lines 141-154: the locals computed from the cookies and the peer address
Locals(r, addr) ==
    LET host == IF r.destaddr = NoCookie
                THEN Localhost
                ELSE QueryUnescape(r.destaddr[1])
    IN  [devid |-> r.devid[1],
         sid |-> r.sid[1],
         https |-> r.proto # NoCookie /\ r.proto[1] = "https",
         hostHeaderRewrite |-> host,
         destAddr |-> genDestAddr(host),
         srcAddr |-> tcpAddr2Bytes(addr),
         v |-> BogusSid,
         upgrade |-> FALSE]

\* The checks without the device lookup of lines 130-133
Aborts_NoDeviceLookup(r) ==
    \/ ~r.parsed
    \/ r.devid = NoCookie
    \/ r.sid = NoCookie

\* lines 119-139: the checks that end the handler before it registers
Aborts(r) ==
    \/ ~r.parsed
    \/ r.devid = NoCookie
    \/ r.devid[1] \notin DOMAIN devices
    \/ r.sid = NoCookie

\* Store of a fresh table in the place of LoadOrStore
ConsLoadOrStore_Store(cons, devid) == MapStore(cons, devid, EmptyMap)

\* line 156: httpProxyCons.LoadOrStore(devid, &sync.Map{})
ConsLoadOrStore(cons, devid) ==
    IF MapHas(cons, devid) THEN cons ELSE MapStore(cons, devid, EmptyMap)

\* The locals go with the goroutines.  The watcher's closure holds v, c,
\* devid and srcAddr (lines 164-176); the rest is the handler's.
WatcherLocals(l) ==
    [NoLoc EXCEPT !.devid = l.devid, !.srcAddr = l.srcAddr, !.v = l.v]

\* doHttpProxy returns, which runs the deferred c.Close() of line 115.  The
\* handler's locals, its reader and what the model recorded of its requests
\* go; of a request that ended the handler before line 141 the cookies stay
\* on record.
Return(c) ==
    /\ CloseBy("defer", c)
    /\ pc' = [pc EXCEPT ![c] = "done"]
    /\ loc' = [loc EXCEPT ![c] = IF wpc[c] \in {"none", "done"}
                                 THEN NoLoc
                                 ELSE WatcherLocals(@)]
    /\ remote' = [remote EXCEPT ![c] = IF wpc[c] \in {"none", "done"}
                                       THEN NoAddr
                                       ELSE @]
    /\ req' = [req EXCEPT ![c] = IF Aborts(@) THEN @ ELSE NoReq]
    /\ sent' = [sent EXCEPT ![c] = <<>>]
    /\ buffered' = [buffered EXCEPT ![c] = 0]
    /\ nread' = [nread EXCEPT ![c] = 0]

\* The watcher returns
WatcherForget(c) ==
    IF pc[c] = "done"
    THEN /\ loc' = [loc EXCEPT ![c] = NoLoc]
         /\ remote' = [remote EXCEPT ![c] = NoAddr]
    ELSE UNCHANGED << loc, remote >>

(***************************************************************************)
(* ln.Accept (line 278) returns connection c and doHttpProxy runs on it up *)
(* to line 156, or to the return of lines 121-137 with the deferred        *)
(* c.Close(): until then it touches nothing another goroutine sees.        *)
(* Connections are numbered in the order they are accepted.  The peer's    *)
(* address is that of no connection still open: the kernel hands out a     *)
(* remote endpoint again only after the socket that had it was closed; of  *)
(* the endpoints that are free the browser takes the first.                *)
(***************************************************************************)
AddrFree(a, c) == \A o \in Conns \ {c} : remote[o] = a => Closed(o)

FreeAddr(c) ==
    LET i == CHOOSE i \in 1..Len(RemoteAddrs) :
                /\ AddrFree(RemoteAddrs[i], c)
                /\ \A j \in 1..(i - 1) : ~AddrFree(RemoteAddrs[j], c)
    IN  RemoteAddrs[i]

Accept(c) ==
    /\ pc[c] = "idle"
    /\ c <= run.conns
    /\ c > 1 => pc[c - 1] # "idle"
    /\ \E a \in {FreeAddr(c)}, r \in FirstRequests \cup {NoReq} :
          IF Aborts(r)
          THEN /\ req' = [req EXCEPT ![c] = r]
               /\ CloseBy("defer", c)
               /\ pc' = [pc EXCEPT ![c] = "done"]
               /\ UNCHANGED << loc, remote, httpProxyCons >>
          ELSE /\ req' = [req EXCEPT ![c] = r]
               /\ remote' = [remote EXCEPT ![c] = a]
               /\ pc' = [pc EXCEPT ![c] = "store"]
               /\ loc' = [loc EXCEPT ![c] = Locals(r, a)]
               /\ httpProxyCons' = ConsLoadOrStore(httpProxyCons, r.devid[1])
               /\ UNCHANGED closeCalls
    /\ UNCHANGED << run, sessVars, sinkVars, written, redirVars, buffered,
                    nread, exitClosed, wpc >>

\* A handler that goes on to the session lookup without the Store
ConsStore_Skip(c) ==
    /\ pc[c] = "store"
    /\ pc' = [pc EXCEPT ![c] = "sess"]
    /\ UNCHANGED << regVars, sessVars, sinkVars, connVars, redirVars, remote, req,
                    loc, buffered, nread, exitClosed, wpc >>

\* line 158: cons.Store(string(srcAddr), c)
ConsStore(c) ==
    /\ pc[c] = "store"
    /\ httpProxyCons' =
          [httpProxyCons EXCEPT ![loc[c].devid] = MapStore(@, loc[c].srcAddr, c)]
    /\ pc' = [pc EXCEPT ![c] = "sess"]
    /\ UNCHANGED << run, sessVars, sinkVars, connVars, redirVars, remote, req, loc,
                    buffered, nread, exitClosed, wpc >>

\* The session lookup without the return of line 178
SessionLoad_NoReturn(c) ==
    /\ pc[c] = "sess"
    /\ IF MapHas(httpProxySessions, loc[c].sid)
       THEN /\ loc' = [loc EXCEPT ![c].v = httpProxySessions[loc[c].sid]]
            /\ wpc' = [wpc EXCEPT ![c] = "select"]
       ELSE UNCHANGED << loc, wpc >>
    /\ pc' = [pc EXCEPT ![c] = "write1"]
    /\ UNCHANGED << remote, req, sent, buffered, nread, closeCalls >>
    /\ UNCHANGED << regVars, sessVars, sink, pushedBy, written, redirVars,
                    exitClosed >>

\* lines 161-179: the session lookup; found, the watcher goroutine starts
SessionLoad(c) ==
    /\ pc[c] = "sess"
    /\ IF MapHas(httpProxySessions, loc[c].sid)
       THEN /\ loc' = [loc EXCEPT ![c].v = httpProxySessions[loc[c].sid]]
            /\ wpc' = [wpc EXCEPT ![c] = "select"]
            /\ pc' = [pc EXCEPT ![c] = "write1"]
            /\ UNCHANGED << remote, req, sent, buffered, nread, closeCalls >>
       ELSE /\ Return(c)
            /\ UNCHANGED wpc
    /\ UNCHANGED << regVars, sessVars, sink, pushedBy, written, redirVars,
                    exitClosed >>

\* line 104 and line 200: one send of msg, which ends with payload p, on
\* brk.httpReq; it blocks while the channel is full
Push(c, devid, msg, p) ==
    /\ Len(sink) < MaxSink
    /\ sink' = Append(sink, [devid |-> devid, data |-> msg])
    /\ pushedBy' = Append(pushedBy, [conn |-> c, sid |-> loc[c].sid,
                                     https |-> loc[c].https,
                                     srcAddr |-> loc[c].srcAddr,
                                     destAddr |-> loc[c].destAddr, p |-> p])
    /\ sent' = [sent EXCEPT ![c] = Append(@, p)]

\* lines 88-107: HttpProxyWriter.Write(p)
HpwWrite(c, p) ==
    LET dev == devices[loc[c].devid]
    IN  Push(c, dev.id,
             WriterMsg(dev, loc[c].https, loc[c].srcAddr, loc[c].destAddr, p), p)

Min(a, b) == IF a < b THEN a ELSE b

\* lines 181-186: the first request is forwarded, then its Upgrade header
\* decides the loop.  What the bufio.Reader holds beyond the first request
\* shows only now: the requests pipelined behind it.
WriteFirst(c) ==
    /\ pc[c] = "write1"
    /\ HpwWrite(c, SerializeRequest(0))
    /\ \/ /\ loc' = [loc EXCEPT ![c].upgrade = TRUE]
          /\ pc' = [pc EXCEPT ![c] = "uread"]
          /\ UNCHANGED buffered
       \/ /\ pc' = [pc EXCEPT ![c] = "hread"]
          /\ \E k \in 0..Min(MaxPipelined, MaxReads) :
                buffered' = [buffered EXCEPT ![c] = k]
          /\ UNCHANGED loc
    /\ UNCHANGED << regVars, sessVars, connVars, redirVars, remote, req, nread,
                    exitClosed, wpc >>

\* lines 190, 196-198: c.Read returns bytes
UpgradeRead(c) ==
    /\ pc[c] = "uread"
    /\ ~Closed(c)
    /\ nread[c] < MaxReads
    /\ nread' = [nread EXCEPT ![c] = @ + 1]
    /\ pc' = [pc EXCEPT ![c] = "upush"]
    /\ UNCHANGED << regVars, sessVars, sinkVars, connVars, redirVars, remote,
                    req, loc, buffered, exitClosed, wpc >>

\* lines 190-194: c.Read fails (the peer is gone, or the connection was
\* closed under the handler): close(exit) and return, with the deferred
\* c.Close()
UpgradeReadErr(c) ==
    /\ pc[c] = "uread"
    /\ exitClosed' = exitClosed \cup {c}
    /\ Return(c)
    /\ UNCHANGED << regVars, sessVars, sink, pushedBy, written, redirVars, wpc >>

\* The push of line 200 with the whole buffer b instead of b[:n]
UpgradePush_WholeBuffer(c) ==
    /\ pc[c] = "upush"
    /\ Push(c, loc[c].devid,
            RawMsg(loc[c].srcAddr, loc[c].destAddr, RawBytes(nread[c]) \o <<0>>),
            RawBytes(nread[c]) \o <<0>>)
    /\ pc' = [pc EXCEPT ![c] = "uread"]
    /\ UNCHANGED << regVars, sessVars, connVars, redirVars, remote, req, loc,
                    buffered, nread, exitClosed, wpc >>

\* line 200
UpgradePush(c) ==
    /\ pc[c] = "upush"
    /\ Push(c, loc[c].devid,
            RawMsg(loc[c].srcAddr, loc[c].destAddr, RawBytes(nread[c])),
            RawBytes(nread[c]))
    /\ pc' = [pc EXCEPT ![c] = "uread"]
    /\ UNCHANGED << regVars, sessVars, connVars, redirVars, remote, req, loc,
                    buffered, nread, exitClosed, wpc >>

\* line 204: http.ReadRequest(br) returns a request: one the reader already
\* holds, or one read from the connection (with what was pipelined behind it)
NextRequest(c) ==
    /\ pc[c] = "hread"
    /\ nread[c] < MaxReads
    /\ \/ /\ buffered[c] > 0
          /\ buffered' = [buffered EXCEPT ![c] = @ - 1]
       \/ /\ buffered[c] = 0
          /\ ~Closed(c)
          /\ \E k \in 0..Min(MaxPipelined, MaxReads - nread[c] - 1) :
                buffered' = [buffered EXCEPT ![c] = k]
    /\ nread' = [nread EXCEPT ![c] = @ + 1]
    /\ pc' = [pc EXCEPT ![c] = "hwrite"]
    /\ UNCHANGED << regVars, sessVars, sinkVars, connVars, redirVars, remote,
                    req, loc, exitClosed, wpc >>

\* lines 204-208: http.ReadRequest(br) fails once the reader is empty (EOF,
\* a malformed request, or the connection closed under the handler):
\* close(exit) and return, with the deferred c.Close()
NextRequestErr(c) ==
    /\ pc[c] = "hread"
    /\ buffered[c] = 0
    /\ exitClosed' = exitClosed \cup {c}
    /\ Return(c)
    /\ UNCHANGED << regVars, sessVars, sink, pushedBy, written, redirVars, wpc >>

\* line 210
WriteNext(c) ==
    /\ pc[c] = "hwrite"
    /\ HpwWrite(c, SerializeRequest(nread[c]))
    /\ pc' = [pc EXCEPT ![c] = "hread"]
    /\ UNCHANGED << regVars, sessVars, connVars, redirVars, remote, req, loc,
                    buffered, nread, exitClosed, wpc >>

(***************************************************************************)
(* The watcher goroutine (lines 164-176).                                  *)
(***************************************************************************)
\* A watcher that wakes on the session's channel without closing c
WatcherCancel_NoClose(c) ==
    /\ wpc[c] = "select"
    /\ loc[c].v \in chanClosed
    /\ wpc' = [wpc EXCEPT ![c] = "delete"]
    /\ UNCHANGED << regVars, sessVars, sinkVars, connVars, redirVars, pc,
                    remote, req, loc, buffered, nread, exitClosed >>

\* lines 166-167: the session's channel is closed
WatcherCancel(c) ==
    /\ wpc[c] = "select"
    /\ loc[c].v \in chanClosed
    /\ CloseBy("watcher", c)
    /\ wpc' = [wpc EXCEPT ![c] = "delete"]
    /\ UNCHANGED << regVars, sessVars, sinkVars, redirVars, pc, remote, req,
                    loc, buffered, nread, exitClosed, written >>

\* line 168: the handler's exit channel is closed
WatcherExit(c) ==
    /\ wpc[c] = "select"
    /\ c \in exitClosed
    /\ wpc' = [wpc EXCEPT ![c] = "delete"]
    /\ UNCHANGED << regVars, sessVars, sinkVars, connVars, redirVars, pc,
                    remote, req, loc, buffered, nread, exitClosed >>

\* A watcher that leaves the entry in place
ConsDelete_Keep(cons, devid, srcAddr) == cons

\* lines 171-175
ConsDelete(cons, devid, srcAddr) ==
    IF MapHas(cons, devid)
    THEN [cons EXCEPT ![devid] = MapDelete(@, srcAddr)]
    ELSE cons

WatcherDelete(c) ==
    /\ wpc[c] = "delete"
    /\ httpProxyCons' = ConsDelete(httpProxyCons, loc[c].devid, loc[c].srcAddr)
    /\ wpc' = [wpc EXCEPT ![c] = "done"]
    /\ WatcherForget(c)
    /\ UNCHANGED << run, sessVars, sinkVars, connVars, redirVars, pc, req,
                    buffered, nread, exitClosed >>

(***************************************************************************)
(* httpProxyRedirect (lines 311-380), one step per access to               *)
(* httpProxySessions or to a session's channel.  Redirs are the goroutines *)
(* that serve redirect requests, each one request after the other; a new   *)
(* request goes to the first that is free.  The Location header (lines     *)
(* 336-360) reads no shared state and is left out.                         *)
(***************************************************************************)
RedirectProtos == {"https"}

RedirectRequests ==
    { q \in [devid : {"d1", "dx"},
             proto : RedirectProtos,
             addr : {Addr1, Localhost},
             pathOk : BOOLEAN,
             sid : {NoCookie} \cup {Cookie(s) : s \in DOMAIN setCookies}] :
        \* a parameter the handler rejects before it looks at the others
        \* leaves them without effect: they are fixed
        /\ httpProxyVaildAddr(q.addr).err => q.pathOk /\ q.devid = "d1"
        /\ ~q.pathOk => q.devid = "d1" }

StatusBadRequest == 400
StatusNotFound == 404
StatusFound == 302

\* The checks without the device lookup of lines 330-334
RedirectReject_NoDeviceLookup(q) ==
    IF httpProxyVaildAddr(q.addr).err THEN StatusBadRequest
    ELSE IF ~q.pathOk THEN StatusBadRequest
    ELSE 0

\* lines 318-334: the status of a request that is rejected, 0 for one that
\* passes
RedirectReject(q) ==
    IF httpProxyVaildAddr(q.addr).err THEN StatusBadRequest
    ELSE IF ~q.pathOk THEN StatusBadRequest
    ELSE IF q.devid \notin DOMAIN devices THEN StatusNotFound
    ELSE 0

\* The handler's locals go with the request
RedirectForget(r) ==
    /\ rreq' = [rreq EXCEPT ![r] = NoRReq]
    /\ rloc' = [rloc EXCEPT ![r] = NoRLoc]

\* lines 311-364: the three checks, then c.Cookie and
\* httpProxySessions.Load(sid)
InFlight == { r \in Redirs : rpc[r] \in {"close", "delete", "store"} }

\* the goroutines are taken in order
FirstFree(r) == rpc[r] = "idle" /\ \A x \in Redirs : x < r => rpc[x] # "idle"

RedirectLoad(r) ==
    /\ FirstFree(r)
    /\ r <= run.slots
    /\ nextSid + Cardinality(InFlight) <= run.sessions
    /\ \E q \in RedirectRequests :
          IF RedirectReject(q) # 0
          THEN /\ status' = [status EXCEPT ![r] = RedirectReject(q)]
               /\ rpc' = [rpc EXCEPT ![r] = "return"]
               /\ rreq' = [rreq EXCEPT ![r] = q]
               /\ UNCHANGED rloc
          ELSE /\ rreq' = [rreq EXCEPT ![r] = q]
               /\ IF q.sid # NoCookie /\ MapHas(httpProxySessions, q.sid[1])
                  THEN /\ rloc' = [rloc EXCEPT ![r].v = httpProxySessions[q.sid[1]]]
                       /\ rpc' = [rpc EXCEPT ![r] = "close"]
                  ELSE /\ rpc' = [rpc EXCEPT ![r] = "store"]
                       /\ UNCHANGED rloc
               /\ UNCHANGED status
    /\ UNCHANGED << regVars, sessVars, sinkVars, connVars, pc, remote, req, loc,
                    buffered, nread, exitClosed, wpc >>

\* line 365: close(v); closing a closed channel panics, which ends the
\* request (and, unrecovered, the process)
RedirectClose(r) ==
    /\ rpc[r] = "close"
    /\ IF rloc[r].v \in chanClosed
       THEN /\ rpc' = [rpc EXCEPT ![r] = "panic"]
            /\ UNCHANGED << chanClosed, rreq, rloc >>
       ELSE /\ chanClosed' = chanClosed \cup {rloc[r].v}
            /\ rpc' = [rpc EXCEPT ![r] = "delete"]
            /\ UNCHANGED << rreq, rloc >>
    /\ UNCHANGED << regVars, httpProxySessions, nextSid, setCookies, sinkVars,
                    connVars, pc, remote, req, loc, buffered, nread, exitClosed,
                    wpc, status >>

\* A redirect that leaves the old session in the registry
RedirectDelete_Keep(r) ==
    /\ rpc[r] = "delete"
    /\ rpc' = [rpc EXCEPT ![r] = "store"]
    /\ UNCHANGED << regVars, sessVars, sinkVars, connVars, pc, remote, req, loc,
                    buffered, nread, exitClosed, wpc, rreq, rloc, status >>

\* line 366: httpProxySessions.Delete(sid)
RedirectDelete(r) ==
    /\ rpc[r] = "delete"
    /\ httpProxySessions' = MapDelete(httpProxySessions, rreq[r].sid[1])
    /\ rpc' = [rpc EXCEPT ![r] = "store"]
    /\ UNCHANGED << regVars, chanClosed, nextSid, setCookies, sinkVars, connVars,
                    pc, remote, req, loc, buffered, nread, exitClosed, wpc, rreq,
                    rloc, status >>

\* lines 370-379: a fresh id, a fresh channel stored under it, the four
\* cookies and the 302.  Nobody knows the id before the response is out.
RedirectStore(r) ==
    /\ rpc[r] = "store"
    /\ rloc' = [rloc EXCEPT ![r].sid = nextSid]
    /\ nextSid' = nextSid + 1
    /\ httpProxySessions' = MapStore(httpProxySessions, nextSid, nextSid)
    /\ setCookies' = MapStore(setCookies, nextSid,
                              [devid |-> rreq[r].devid,
                               proto |-> rreq[r].proto,
                               destaddr |-> QueryEscape(rreq[r].addr)])
    /\ status' = [status EXCEPT ![r] = StatusFound]
    /\ rpc' = [rpc EXCEPT ![r] = "return"]
    /\ UNCHANGED << regVars, chanClosed, sinkVars, connVars, pc, remote, req,
                    loc, buffered, nread, exitClosed, wpc, rreq >>

\* The handler returns (lines 321, 327, 333, 380) or unwinds from the panic
\* of line 365, and the goroutine is free for the next request
RedirectReturn(r) ==
    /\ rpc[r] \in {"return", "panic"}
    /\ rpc' = [rpc EXCEPT ![r] = "idle"]
    /\ status' = [status EXCEPT ![r] = 0]
    /\ RedirectForget(r)
    /\ UNCHANGED << regVars, sessVars, sinkVars, connVars, pc, remote, req, loc,
                    buffered, nread, exitClosed, wpc >>

(***************************************************************************)
(* handleHttpProxyResp (lines 38-53): the broker hands over a reply frame  *)
(* of device dev, data = Source Identifier ++ payload.                     *)
(***************************************************************************)
SrcAddrLen == 18
RespPayloads == {<<>>, <<7>>}
RespFrames ==
    { tcpAddr2Bytes(RemoteAddrs[i]) \o p : i \in 1..MaxConns, p \in RespPayloads }

\* c.Write(data): a closed connection takes no bytes
ConnWrite(c, data) ==
    written' = [written EXCEPT ![c] = IF Closed(c) THEN @ ELSE Append(@, data)]

\* A dispatch that writes the frame with its Source Identifier
handleHttpProxyResp_NoStrip(dev, resp) ==
    LET addr == SubSeq(resp, 1, SrcAddrLen)
    IN  /\ IF MapHas(httpProxyCons, dev) /\ MapHas(httpProxyCons[dev], addr)
           THEN LET c == httpProxyCons[dev][addr]
                IN  IF Len(resp) = SrcAddrLen
                    THEN /\ closeCalls[c]["resp"] < run.resp
                         /\ CloseBy("resp", c)
                         /\ UNCHANGED written
                    ELSE /\ Len(written[c]) < run.resp
                         /\ ConnWrite(c, resp)
                         /\ UNCHANGED closeCalls
           ELSE UNCHANGED << closeCalls, written >>
        /\ UNCHANGED << regVars, sessVars, sinkVars, redirVars, pc, remote, req,
                        loc, buffered, nread, exitClosed, wpc >>

handleHttpProxyResp(dev, resp) ==
    LET addr == SubSeq(resp, 1, SrcAddrLen)
        data == SubSeq(resp, SrcAddrLen + 1, Len(resp))
    IN  /\ IF MapHas(httpProxyCons, dev) /\ MapHas(httpProxyCons[dev], addr)
           THEN LET c == httpProxyCons[dev][addr]
                IN  IF Len(data) = 0
                    THEN /\ closeCalls[c]["resp"] < run.resp
                         /\ CloseBy("resp", c)
                         /\ UNCHANGED written
                    ELSE /\ Len(written[c]) < run.resp
                         /\ ConnWrite(c, data)
                         /\ UNCHANGED closeCalls
           ELSE UNCHANGED << closeCalls, written >>
        /\ UNCHANGED << regVars, sessVars, sinkVars, redirVars, pc, remote, req,
                        loc, buffered, nread, exitClosed, wpc >>

(***************************************************************************)
(* The broker's end of brk.httpReq: it takes the oldest message off the    *)
(* channel and sends it down the device's tunnel.                          *)
(***************************************************************************)
BrokerRecv ==
    /\ sink # <<>>
    /\ sink' = Tail(sink)
    /\ pushedBy' = Tail(pushedBy)
    /\ UNCHANGED << regVars, sessVars, connVars, redirVars, sent, pc, remote,
                    req, loc, buffered, nread, exitClosed, wpc >>

(***************************************************************************)
(* The system.                                                             *)
(***************************************************************************)
Next ==
    \/ \E c \in Conns : Accept(c)
    \/ \E c \in Conns : ConsStore(c)
    \/ \E c \in Conns : SessionLoad(c)
    \/ \E c \in Conns : WriteFirst(c)
    \/ \E c \in Conns : UpgradeRead(c)
    \/ \E c \in Conns : UpgradeReadErr(c)
    \/ \E c \in Conns : UpgradePush(c)
    \/ \E c \in Conns : NextRequest(c)
    \/ \E c \in Conns : NextRequestErr(c)
    \/ \E c \in Conns : WriteNext(c)
    \/ \E c \in Conns : WatcherCancel(c)
    \/ \E c \in Conns : WatcherExit(c)
    \/ \E c \in Conns : WatcherDelete(c)
    \/ \E r \in Redirs : RedirectLoad(r)
    \/ \E r \in Redirs : RedirectClose(r)
    \/ \E r \in Redirs : RedirectDelete(r)
    \/ \E r \in Redirs : RedirectStore(r)
    \/ \E r \in Redirs : RedirectReturn(r)
    \/ \E d \in DOMAIN devices : \E f \in RespFrames : handleHttpProxyResp(d, f)
    \/ BrokerRecv

Spec == Init /\ [][Next]_vars

(***************************************************************************)
(* The same system under the scheduling Go gives it.  A goroutine that can *)
(* take a step takes it: the handler's steps that wait for nothing from    *)
(* the browser (a request the reader already holds is parsed, a read on a  *)
(* closed connection fails), the watcher's, a redirect once it is being    *)
(* served, and the broker's receive.  Nothing makes a browser connect,     *)
(* send or hang up, and nothing makes a device reply.                      *)
(***************************************************************************)
HandlerStep(c) ==
    \/ ConsStore(c)
    \/ SessionLoad(c)
    \/ WriteFirst(c)
    \/ UpgradePush(c)
    \/ WriteNext(c)
    \/ buffered[c] > 0 /\ NextRequest(c)
    \/ Closed(c) /\ UpgradeReadErr(c)
    \/ Closed(c) /\ NextRequestErr(c)

WatcherStep(c) == WatcherCancel(c) \/ WatcherExit(c) \/ WatcherDelete(c)

RedirectStep(r) ==
    RedirectClose(r) \/ RedirectDelete(r) \/ RedirectStore(r) \/ RedirectReturn(r)

Fairness ==
    /\ \A c \in Conns : WF_vars(HandlerStep(c)) /\ WF_vars(WatcherStep(c))
    /\ \A r \in Redirs : WF_vars(RedirectStep(r))
    /\ WF_vars(BrokerRecv)

FairInit == InitRun(RunConns)

FairSpec == FairInit /\ [][Next]_vars /\ Fairness

(***************************************************************************)
(* Properties.                                                             *)
(***************************************************************************)
\* The Endpoint Registry holds no entry that leads to connection c
NoEntry(c) ==
    \A d \in DOMAIN httpProxyCons :
        \A a \in DOMAIN httpProxyCons[d] : httpProxyCons[d][a] # c

\* Both goroutines of connection c are through
Terminated(c) == pc[c] = "done" /\ wpc[c] \in {"none", "done"}

\* The handler of c leaves its read/parse loop (lines 191-193, 205-207)
LoopEnds(c) == pc[c] \in {"uread", "hread"} /\ pc'[c] = "done"

\* The number of zero-length payloads among the payloads ps
RECURSIVE CloseFrames(_)
CloseFrames(ps) ==
    IF ps = <<>> THEN 0
    ELSE (IF ps[1] = <<>> THEN 1 ELSE 0) + CloseFrames(Tail(ps))

\* This step pushes a frame of connection c with payload p
Pushes(c, p) ==
    /\ Len(pushedBy') = Len(pushedBy) + 1
    /\ pushedBy'[Len(pushedBy')].conn = c
    /\ pushedBy'[Len(pushedBy')].p = p

(***************************************************************************)
(* C1: when the read/parse loop of a handler ends, the handler pushes one  *)
(* frame with a zero-length payload and has pushed none before: of the     *)
(* frames of its connection exactly one is a close frame, and it is the    *)
(* last.                                                                   *)
(***************************************************************************)
C1_CloseFrameAtLoopEnd ==
    [][\A c \in Conns :
          LoopEnds(c) /\ sent[c] # <<>> =>
              /\ CloseFrames(sent[c]) = 0
              /\ Pushes(c, <<>>)]_vars

(***************************************************************************)
(* C2, as stated: when the handler's exit and the session's cancellation   *)
(* race on a connection, c.Close() is called on it once and no more.       *)
(***************************************************************************)
C2_OneCloseCall ==
    \A c \in Conns :
        wpc[c] # "none" => closeCalls[c]["defer"] + closeCalls[c]["watcher"] <= 1

(***************************************************************************)
(* C2, amended: on a connection that got a watcher, the handler and the    *)
(* watcher each call c.Close() at most once (the watcher only for a fired  *)
(* session, the handler on every exit), so that the connection is closed   *)
(* by whichever call comes first and the other is a call on a closed       *)
(* connection; the registry entry is removed by the watcher alone, in its  *)
(* one Delete, and once both goroutines are through the connection is      *)
(* closed and no entry leads to it.                                        *)
(***************************************************************************)
C2_ClosedAndRemovedOnce ==
    \A c \in Conns :
        wpc[c] # "none" =>
            /\ closeCalls[c]["defer"] <= 1
            /\ closeCalls[c]["watcher"] <= 1
            /\ closeCalls[c]["defer"] = 1 <=> pc[c] = "done"
            /\ closeCalls[c]["watcher"] = 1 => wpc[c] \in {"delete", "done"}
            /\ wpc[c] = "done" => NoEntry(c)
            /\ Terminated(c) => Closed(c)

\* the race was run: the exit channel and the session's channel were both
\* closed, the watcher took the session's and both goroutines are through
C2_Witness ==
    \E c \in Conns :
        /\ Terminated(c)
        /\ c \in exitClosed
        /\ closeCalls[c]["watcher"] = 1
        /\ closeCalls[c]["defer"] = 1
        /\ NoEntry(c)

(***************************************************************************)
(* C3: once a handler has terminated, by whichever path, its connection is *)
(* closed and the Endpoint Registry holds no entry for it.                 *)
(***************************************************************************)
C3_NoEntryAfterTermination ==
    \A c \in Conns : Terminated(c) => Closed(c) /\ NoEntry(c)

(***************************************************************************)
(* C4: once a session's channel is closed, every connection whose watcher  *)
(* waits on it gets closed and loses its registry entry, whether the       *)
(* watcher started before or after the close; a watcher that leaves its    *)
(* select while the handler has not exited is the one that closes the      *)
(* connection; and no watcher stays in its select once the session's       *)
(* channel or the handler's exit channel is closed.                        *)
(***************************************************************************)
Watching(c) == wpc[c] = "select"
Fired(c) == loc[c].v \in chanClosed

C4_CancellationClosesAttached ==
    /\ [][\A c \in Conns :
            Watching(c) /\ wpc'[c] # "select" /\ c \notin exitClosed =>
                /\ Fired(c)
                /\ closeCalls'[c]["watcher"] = closeCalls[c]["watcher"] + 1]_vars
    /\ \A c \in Conns :
          (Watching(c) /\ Fired(c)) ~>
              (wpc[c] = "done" /\ Closed(c) /\ NoEntry(c))
    /\ \A c \in Conns :
          (Watching(c) /\ (Fired(c) \/ c \in exitClosed)) ~> (wpc[c] = "done")

\* both connections were attached to the session that was cancelled, each
\* was closed by its watcher and lost its entry
C4_Witness ==
    \A c \in Conns :
        /\ Terminated(c)
        /\ closeCalls[c]["watcher"] = 1
        /\ NoEntry(c)

(***************************************************************************)
(* C5: no interleaving of redirects makes an invalidation panic: a         *)
(* redirect that finds its session's channel closed already goes on        *)
(* without closing it again.                                               *)
(***************************************************************************)
C5_InvalidateIdempotent ==
    \A r \in Redirs : rpc[r] # "panic"

(***************************************************************************)
(* C6: in a redirect that presents an earlier redirect's session cookie    *)
(* and succeeds, the earlier session's channel is closed before the        *)
(* session is removed, and it is closed and removed when the new session   *)
(* is created and stored; the store leaves the new id in the Session       *)
(* Registry and not the old one.                                           *)
(***************************************************************************)
C6_OldSessionGoneBeforeNew ==
    [][\A r \in Redirs :
          /\ rpc[r] = "delete" => rloc[r].v \in chanClosed
          /\ (rpc[r] = "store" /\ rpc'[r] = "return" /\ rreq[r].sid # NoCookie) =>
                LET old == rreq[r].sid[1]
                    new == rloc'[r].sid
                IN  /\ old \in chanClosed
                    /\ old \notin DOMAIN httpProxySessions
                    /\ new \notin DOMAIN httpProxySessions
                    /\ new # old
                    /\ new \in DOMAIN httpProxySessions'
                    /\ old \notin DOMAIN httpProxySessions'
                    /\ status'[r] = StatusFound]_vars

\* a redirect that presented the cookie of a session it found alive has
\* answered 302: the old session is fired and gone, the new one is stored
C6_Witness ==
    \E r \in Redirs :
        /\ rpc[r] = "return"
        /\ status[r] = StatusFound
        /\ rreq[r].sid # NoCookie
        /\ rloc[r].v = rreq[r].sid[1]
        /\ rloc[r].v \in chanClosed
        /\ rloc[r].v \notin DOMAIN httpProxySessions
        /\ rloc[r].sid \in DOMAIN httpProxySessions

(***************************************************************************)
(* C7: a connection whose destination (the rtty-http-destaddr cookie, or   *)
(* "localhost" without it) is no valid IPv4 literal with optional port is  *)
(* aborted: it pushes no frame, it has no registry entry, no bytes are     *)
(* written to it and its handler has returned and closed it.               *)
(***************************************************************************)
InvalidDest(c) ==
    ~Aborts(req[c]) /\ httpProxyVaildAddr(loc[c].hostHeaderRewrite).err

C7_InvalidDestAborted ==
    \A c \in Conns :
        InvalidDest(c) =>
            /\ sent[c] = <<>>
            /\ NoEntry(c)
            /\ written[c] = <<>>
            /\ pc[c] = "done"
            /\ Closed(c)

(***************************************************************************)
(* C8: a connection whose rtty-http-devid cookie names a device the broker *)
(* does not know pushes no frame, never has a registry entry, gets no      *)
(* bytes written to it, and its handler has returned and closed it.        *)
(***************************************************************************)
UnknownDevice(c) ==
    req[c].devid # NoCookie /\ req[c].devid[1] \notin DOMAIN devices

C8_UnknownDeviceDropped ==
    \A c \in Conns :
        UnknownDevice(c) =>
            /\ sent[c] = <<>>
            /\ \A i \in 1..Len(pushedBy) : pushedBy[i].conn # c
            /\ NoEntry(c)
            /\ \A d \in DOMAIN httpProxyCons : d \in DOMAIN devices
            /\ written[c] = <<>>
            /\ wpc[c] = "none"
            /\ pc[c] = "done"
            /\ closeCalls[c]["defer"] = 1

\* a connection that named an unknown device, with the cookie of a live
\* session, has been closed
C8_Witness ==
    \E c \in Conns :
        /\ UnknownDevice(c)
        /\ req[c].sid # NoCookie
        /\ req[c].sid[1] \in DOMAIN httpProxySessions
        /\ pc[c] = "done"
        /\ Closed(c)

(***************************************************************************)
(* C9: a frame is pushed only to the device and for the destination that   *)
(* the redirect which minted the connection's session named.               *)
(***************************************************************************)
C9_FramesFollowSession ==
    \A i \in 1..Len(sink) :
        LET g == pushedBy[i]
        IN  /\ g.sid \in DOMAIN setCookies
            /\ sink[i].devid = setCookies[g.sid].devid
            /\ g.destAddr = genDestAddr(QueryUnescape(setCookies[g.sid].destaddr))

(***************************************************************************)
(* C10: every frame in the sink that a connection with a valid destination *)
(* pushed is scheme flag ++ Source Identifier (18 bytes) ++ Destination    *)
(* Identifier (6 bytes) ++ payload for a device whose protocol version is  *)
(* above 3, the flag 1 for https and 0 otherwise, and the same without the *)
(* flag for any other device.                                              *)
(***************************************************************************)
DestAddrLen == 6

Layout(dev, https, srcAddr, destAddr, p) ==
    (IF dev.proto > SchemeProto THEN << IF https THEN 1 ELSE 0 >> ELSE <<>>)
        \o srcAddr \o destAddr \o p

C10_FrameLayout ==
    \A i \in 1..Len(sink) :
        LET g == pushedBy[i]
        IN  Len(g.destAddr) = DestAddrLen =>
                /\ Len(g.srcAddr) = SrcAddrLen
                /\ sink[i].data = Layout(devices[sink[i].devid], g.https,
                                         g.srcAddr, g.destAddr, g.p)

(***************************************************************************)
(* C11: the dispatch of a reply frame of device d whose first 18 bytes     *)
(* are a and whose payload is the rest.  Without an entry for (d, a)       *)
(* nothing is closed, nothing is written and the registries stay as they   *)
(* are.  With an entry and an empty payload the mapped connection gets     *)
(* one c.Close().  With an entry and a payload, c.Write is called on the   *)
(* mapped connection with exactly the payload (an open connection takes    *)
(* the bytes, a closed one takes none) and on no other connection.  No     *)
(* step gives a connection bytes or a close from a reply unless the        *)
(* registry maps the frame's device and source to that connection.         *)
(***************************************************************************)
RespAddr(f) == SubSeq(f, 1, SrcAddrLen)
RespPayload(f) == SubSeq(f, SrcAddrLen + 1, Len(f))
HasEntry(d, a) == MapHas(httpProxyCons, d) /\ MapHas(httpProxyCons[d], a)

\* The connections that the registry maps some frame with payload p to
Mapped(p) ==
    { httpProxyCons[d][RespAddr(f)] :
        <<d, f>> \in { x \in (DOMAIN devices) \X RespFrames :
                         HasEntry(x[1], RespAddr(x[2])) /\ RespPayload(x[2]) = p } }

C11_Dispatch ==
    [][/\ \A d \in DOMAIN devices, f \in RespFrames :
            handleHttpProxyResp(d, f) =>
                /\ UNCHANGED << httpProxyCons, httpProxySessions, chanClosed >>
                /\ IF ~HasEntry(d, RespAddr(f))
                   THEN UNCHANGED << closeCalls, written >>
                   ELSE LET c == httpProxyCons[d][RespAddr(f)]
                        IN  IF RespPayload(f) = <<>>
                            THEN /\ closeCalls' =
                                       [closeCalls EXCEPT ![c]["resp"] = @ + 1]
                                 /\ Closed(c)'
                                 /\ UNCHANGED written
                            ELSE /\ written' =
                                       [written EXCEPT ![c] =
                                           IF Closed(c) THEN @
                                           ELSE Append(@, RespPayload(f))]
                                 /\ UNCHANGED closeCalls
       /\ \A c \in Conns :
            /\ written'[c] # written[c] =>
                  \E p \in RespPayloads \ {<<>>} :
                      c \in Mapped(p) /\ written'[c] = Append(written[c], p)
            /\ closeCalls'[c]["resp"] # closeCalls[c]["resp"] =>
                  c \in Mapped(<<>>)]_vars

\* a reply with a payload was written to a connection and a reply without
\* one closed it, while another connection is registered and got nothing
C11_Witness ==
    \E c \in Conns : \E o \in Conns \ {c} :
        /\ written[c] = << <<7>> >>
        /\ closeCalls[c]["resp"] = 1
        /\ ~NoEntry(o)
        /\ written[o] = <<>>
        /\ closeCalls[o]["resp"] = 0

(***************************************************************************)
(* C12: a redirect request is answered 400 when its address is no valid    *)
(* IPv4 literal or its path does not parse, and 404 when its device is     *)
(* unknown; the steps of a request so rejected leave the Session Registry, *)
(* every session's channel, the id generator and the cookies as they are.  *)
(* Whatever step fires or removes a session, mints one or sets cookies is  *)
(* a step of a redirect request that passes the three checks, and a 302    *)
(* is answered only with the new session stored and its cookies set.       *)
(***************************************************************************)
Passes(q) ==
    /\ ~httpProxyVaildAddr(q.addr).err
    /\ q.pathOk
    /\ q.devid \in DOMAIN devices

Rejected(r) ==
    rpc[r] = "return" /\ status[r] \in {StatusBadRequest, StatusNotFound}

C12_RejectedRedirectNoEffect ==
    [][/\ \A r \in Redirs :
            /\ (rpc[r] = "idle" /\ rpc'[r] # "idle" /\ ~Passes(rreq'[r])) =>
                  /\ Rejected(r)'
                  /\ status'[r] = IF /\ ~httpProxyVaildAddr(rreq'[r].addr).err
                                     /\ rreq'[r].pathOk
                                  THEN StatusNotFound
                                  ELSE StatusBadRequest
                  /\ UNCHANGED sessVars
            /\ (Rejected(r) /\ rpc'[r] # rpc[r]) => UNCHANGED sessVars
            /\ (status'[r] = StatusFound /\ status[r] # StatusFound) =>
                  /\ Passes(rreq[r])
                  /\ rloc'[r].sid \in DOMAIN httpProxySessions'
                  /\ rloc'[r].sid \notin DOMAIN httpProxySessions
                  /\ rloc'[r].sid \in DOMAIN setCookies'
       /\ sessVars' # sessVars =>
            \E r \in Redirs :
                /\ rpc[r] \in {"close", "delete", "store"}
                /\ rpc'[r] # rpc[r]
                /\ Passes(rreq[r])]_vars

\* a request for an unknown device that carries the cookie of a live
\* session is about to be answered 404: the session is there and not fired
C12_Witness ==
    \E r \in Redirs :
        /\ Rejected(r)
        /\ status[r] = StatusNotFound
        /\ rreq[r].sid # NoCookie
        /\ rreq[r].sid[1] \in DOMAIN httpProxySessions
        /\ rreq[r].sid[1] \notin chanClosed

(***************************************************************************)
(* C13: for a destination that is an IPv4 literal a.b.c.d, the Destination *)
(* Identifier a handler computes is a, b, c, d followed by the port as two *)
(* big-endian bytes when the port is a number in 0..65535, and followed by *)
(* 0, 80 when there is no port; when the text after the colon is not a     *)
(* number in 0..65535 no 6-byte identifier is computed.                    *)
(***************************************************************************)
IPv4Literal(a) ==
    /\ a.kind = "dotted"
    /\ Len(a.host) = 4
    /\ \A i \in 1..4 : a.host[i] \in 0..255

PortInRange(port) == port.numeric /\ port.val \in 0..65535

Served(c) == pc[c] \notin {"idle", "done"} /\ req[c].destaddr # NoCookie

C13_DestinationIdentifier ==
    \A c \in Conns :
        (Served(c) /\ IPv4Literal(loc[c].hostHeaderRewrite)) =>
            LET a == loc[c].hostHeaderRewrite
            IN  IF ~a.port.present
                THEN loc[c].destAddr = a.host \o <<0, 80>>
                ELSE IF PortInRange(a.port)
                THEN loc[c].destAddr =
                        a.host \o <<a.port.val \div 256, a.port.val % 256>>
                ELSE Len(loc[c].destAddr) # DestAddrLen

(***************************************************************************)
(* C14: when SslCert, SslKey and SslCacert are all configured, the         *)
(* listener the accept loop runs on requires and verifies client           *)
(* certificates, and every connection whose first request a handler has    *)
(* read is one whose client certificate was verified.                      *)
(***************************************************************************)
AllConfigured ==
    run.startup.cfg.SslCert /\ run.startup.cfg.SslKey /\ run.startup.cfg.SslCacert

C14_MutualTlsWhenCaConfigured ==
    AllConfigured =>
        /\ run.startup.ln.tls
        /\ run.startup.ln.ClientAuth = RequireAndVerifyClientCert
        /\ \A c \in Conns : req[c].parsed => req[c].verified

(***************************************************************************)
(* C15: when a handler looks up a session id that is not in the Session    *)
(* Registry (never minted, or removed by a later redirect), the handler    *)
(* returns and its connection is closed; that step pushes no frame and     *)
(* starts no watcher.  No step of a handler or a watcher changes the       *)
(* Session Registry, and every frame pushed is pushed by a connection      *)
(* whose watcher was started, for a session id a redirect minted.          *)
(***************************************************************************)
\* This step pushes a frame of connection c
PushesFrame(c) ==
    /\ Len(pushedBy') = Len(pushedBy) + 1
    /\ pushedBy'[Len(pushedBy')].conn = c

UnknownSession(c) ==
    pc[c] = "sess" /\ ~MapHas(httpProxySessions, loc[c].sid)

C15_UnknownSessionAborted ==
    [][\A c \in Conns :
          /\ (UnknownSession(c) /\ pc'[c] # pc[c]) =>
                /\ pc'[c] = "done"
                /\ Closed(c)'
                /\ wpc[c] = "none" /\ wpc'[c] = "none"
                /\ UNCHANGED << sink, pushedBy >>
                /\ UNCHANGED httpProxySessions
          /\ (pc'[c] # pc[c] \/ wpc'[c] # wpc[c]) =>
                UNCHANGED << httpProxySessions, nextSid >>
          /\ PushesFrame(c) =>
                /\ wpc[c] # "none"
                /\ pushedBy'[Len(pushedBy')].sid \in 1..(nextSid - 1)]_vars

\* a connection that presented a session id a later redirect had removed
\* is through: closed, without a watcher, and nothing was pushed
C15_Witness ==
    \E c \in Conns :
        /\ pc[c] = "done" /\ wpc[c] = "none"
        /\ ~NoEntry(c)
        /\ Closed(c)
        /\ nextSid > 2
        /\ sink = <<>>

(***************************************************************************)
(* C16: the frames of one connection are pushed, and are on the sink, in   *)
(* the order its requests or raw chunks were read: the first request, then *)
(* the second read, and so on.  A handler that has read raw bytes in       *)
(* upgrade mode pushes, as its next step, one frame whose payload is those *)
(* bytes.  Every push appends one element to the sink, which is made of    *)
(* the Source and Destination Identifier and the payload of one            *)
(* connection, and leaves the elements before it as they are; the sink     *)
(* changes otherwise only by the broker taking its oldest element.         *)
(***************************************************************************)
FramesOf(c) == SelectSeq(pushedBy, LAMBDA f : f.conn = c)

\* The payloads ps are those of the reads 0, 1, 2, ... in this order
InReadOrder(ps) ==
    \A k \in 1..Len(ps) :
        IF k = 1
        THEN ps[k] = SerializeRequest(0)
        ELSE /\ ps[k] \in {SerializeRequest(k - 1), RawBytes(k - 1)}
             /\ Len(ps[k]) = Len(ps[2])

\* The number of the read that payload p came from
ReadIndex(p) == p[Len(p)]

OnSinkInOrder(fs) ==
    \A k \in 2..Len(fs) : ReadIndex(fs[k].p) = ReadIndex(fs[k - 1].p) + 1

OneConnection(e, f) ==
    \E flag \in {<<>>, <<0>>, <<1>>} :
        e.data = flag \o f.srcAddr \o f.destAddr \o f.p

C16_FramesInReadOrder ==
    [][/\ \A c \in Conns : InReadOrder(sent[c])' /\ OnSinkInOrder(FramesOf(c))'
       /\ Len(sink') = Len(pushedBy')
       /\ \A i \in 1..Len(sink') : OneConnection(sink'[i], pushedBy'[i])
       /\ sink' # sink =>
             \/ /\ sink # <<>>
                /\ sink' = Tail(sink)
                /\ pushedBy' = Tail(pushedBy)
                /\ UNCHANGED sent
             \/ /\ Len(sink') = Len(sink) + 1
                /\ SubSeq(sink', 1, Len(sink)) = sink
                /\ SubSeq(pushedBy', 1, Len(sink)) = pushedBy
                /\ LET f == pushedBy'[Len(pushedBy')]
                   IN  /\ sent' = [sent EXCEPT ![f.conn] = Append(@, f.p)]
                       /\ pc'[f.conn] # pc[f.conn]
       /\ \A c \in Conns :
             /\ (pc[c] = "uread" /\ pc'[c] = "upush") =>
                   /\ nread'[c] = nread[c] + 1
                   /\ sink' = sink
             /\ (pc[c] = "upush" /\ pc'[c] # "upush") =>
                   /\ pc'[c] = "uread"
                   /\ Pushes(c, RawBytes(nread[c]))
                   /\ sink'[Len(sink')].data =
                         loc[c].srcAddr \o loc[c].destAddr \o RawBytes(nread[c])]_vars

\* one connection has two frames on the sink, the second a raw chunk
C16_Witness ==
    \E c \in Conns :
        /\ Len(FramesOf(c)) = 2
        /\ FramesOf(c)[2].p = RawBytes(1)
        /\ pc[c] = "uread"

(***************************************************************************)
(* C17: a step of the handler or the watcher of one connection closes no   *)
(* other connection and leaves the Connection Registry entry of every      *)
(* other connection that is not closed in place, also when that other      *)
(* connection has the Source Identifier the first one had.                 *)
(***************************************************************************)
EntryOf(o, d, a) == HasEntry(d, a) /\ httpProxyCons[d][a] = o

StepOf(c) == pc'[c] # pc[c] \/ wpc'[c] # wpc[c]

C17_TeardownIsolated ==
    [][\A c \in Conns : StepOf(c) =>
          \A o \in Conns \ {c} :
              /\ closeCalls'[o] = closeCalls[o]
              /\ ~Closed(o) =>
                    \A d \in DOMAIN httpProxyCons :
                        \A a \in DOMAIN httpProxyCons[d] :
                            EntryOf(o, d, a) => EntryOf(o, d, a)']_vars

(***************************************************************************)
(* C18: a device's table, once in the Connection Registry, stays there and *)
(* is not replaced when a further connection registers; and a connection   *)
(* whose handler has registered it is in its device's table, when the     *)
(* other connections accepted have Source Identifiers different from its   *)
(* own.  So of connections with distinct Source Identifiers that register  *)
(* for one device at the same time none is lost.                           *)
(***************************************************************************)
\* The handler of c has stored its entry and its watcher has not deleted it
Registered(c) ==
    /\ pc[c] \in {"sess", "write1", "uread", "upush", "hread", "hwrite"}
    /\ wpc[c] # "done"

\* Every other connection accepted so far has a Source Identifier, which is
\* not that of c
OwnSourceId(c) ==
    \A o \in Conns \ {c} :
        \/ pc[o] = "idle"
        \/ loc[o].srcAddr # <<>> /\ loc[o].srcAddr # loc[c].srcAddr

AllRegistered ==
    \A c \in Conns :
        (Registered(c) /\ OwnSourceId(c)) =>
            EntryOf(c, loc[c].devid, loc[c].srcAddr)

C18_NoRegistrationLost ==
    [][/\ AllRegistered'
       /\ \A d \in DOMAIN httpProxyCons :
             /\ d \in DOMAIN httpProxyCons'
             /\ \A c \in Conns :
                   (pc[c] = "idle" /\ pc'[c] # "idle") =>
                       httpProxyCons'[d] = httpProxyCons[d]]_vars

\* two connections of one device, each with its own Source Identifier, are
\* registered in the one table of the device
C18_Witness ==
    /\ \A c \in Conns : Registered(c) /\ loc[c].devid = "d1"
    /\ loc[1].srcAddr # loc[2].srcAddr
    /\ DOMAIN httpProxyCons = {"d1"}
    /\ DOMAIN httpProxyCons["d1"] = {loc[1].srcAddr, loc[2].srcAddr}
    /\ \A c \in Conns : httpProxyCons["d1"][loc[c].srcAddr] = c

(***************************************************************************)
(* C19: a handler stores its connection in the Connection Registry, then   *)
(* looks up the session, and only then pushes its first frame.  When the   *)
(* first frame of a connection is pushed, the connection's entry is in the *)
(* registry, unless its own watcher has removed it by then or another      *)
(* connection had the same Source Identifier.                              *)
(***************************************************************************)
FirstPush(c) == PushesFrame(c) /\ sent[c] = <<>>

C19_RegisteredBeforeFirstFrame ==
    [][\A c \in Conns :
          /\ (pc'[c] = "sess" /\ pc[c] # "sess") =>
                /\ pc[c] = "store"
                /\ EntryOf(c, loc[c].devid, loc[c].srcAddr)'
          /\ (pc'[c] = "write1" /\ pc[c] # "write1") => pc[c] = "sess"
          /\ PushesFrame(c) =>
                pc[c] \in {"write1", "upush", "hwrite"}
          /\ FirstPush(c) =>
                /\ pc[c] = "write1"
                /\ \/ EntryOf(c, loc[c].devid, loc[c].srcAddr)
                   \/ wpc[c] = "done"
                   \/ ~OwnSourceId(c)]_vars

\* the first frame of a connection is out and a reply to it was written to
\* the connection, which the registry entry routed
C19_Witness ==
    \E c \in Conns :
        /\ sent[c] = << SerializeRequest(0) >>
        /\ EntryOf(c, loc[c].devid, loc[c].srcAddr)
        /\ written[c] # <<>>

(***************************************************************************)
(* C20: once the watcher of a connection, woken by the cancellation of its *)
(* session, has closed the connection and deleted its registry entry, the  *)
(* handler pushes no request frame of that connection after the first,     *)
(* whether the request was read before the close or was held by the        *)
(* handler's reader.                                                       *)
(***************************************************************************)
Cancelled(c) == closeCalls[c]["watcher"] > 0 /\ wpc[c] = "done"

C20_NoFrameAfterCancellation ==
    [][\A c \in Conns :
          (Cancelled(c) /\ pc[c] = "hwrite") => ~PushesFrame(c)]_vars

=============================================================================
